---------------------------- MODULE Spec2Model ----------------------------
(***************************************************************************)
(* A model of src/main.py, the Safari tabs picker: the main loop's tab     *)
(* registry (windows, ui_letter_map), the active-time dictionaries         *)
(* (tab_start_times, tab_active_times), the closed-tab stack and the       *)
(* key dispatch.  One action per stretch of main_loop between two reads of *)
(* the outside world (the tab list, the front tab, the clock, a key).      *)
(*                                                                         *)
(* Strings stand for titles, urls and letters; a key is its integer code   *)
(* as getch() returns it; time is an integer number of seconds.  The text  *)
(* formatting of a rendered line (regex clean-up, truncation) is not       *)
(* modelled: a rendered row is the letter printed and the tab it is        *)
(* printed for.                                                            *)
(***************************************************************************)
EXTENDS Integers, Sequences, FiniteSets, TLC

VARIABLES
    pc,                  \* position in main_loop, or "done" / "crashed"
    windows,             \* window id -> list of {title, url} (global, line 59)
    ui_letter_map,       \* letter -> tab with tab_num (global, line 60)
    closed_tabs_stack,   \* list of urls (global, line 55)
    tab_start_times,     \* key -> time (global, line 57)
    tab_active_times,    \* url -> seconds (global, line 58)
    activeTab,           \* main_loop local, line 395
    current_active_tab,  \* main_loop local, line 443 (unbound until assigned)
    tabs_list,           \* main_loop local, line 414
    result,              \* main_loop local, line 411: the tab list as text
    active_tab_result,   \* main_loop local, line 442: the front-tab answer
    fSearchMode, fShowFullTitle, fShowTabTimeActive,   \* flags, lines 390-392
    search_query,        \* main_loop local, line 396
    ch,                  \* main_loop local: the key last read
    clock,               \* what time.time() returns
    screen,              \* rows written to the terminal in this iteration
    sink,                \* commands the handler of the key last read sent out
    front_seen,          \* history: the front tab last answered and parsed
    front_since,         \* history: the time of the answer that changed it
    focus_total          \* history: url -> seconds of its finished spells

vars == <<pc, windows, ui_letter_map, closed_tabs_stack, tab_start_times,
          tab_active_times, activeTab, current_active_tab, tabs_list,
          fSearchMode, fShowFullTitle, fShowTabTimeActive, search_query,
          ch, clock, screen, sink, result, active_tab_result,
          front_seen, front_since, focus_total>>

-----------------------------------------------------------------------------
(* Bounds of the model. *)

\* longest tab list a poll returns in the small universes
MaxLen == 3
\* the clock stops advancing here
MaxTime == 4
\* deepest closed-tab stack
MaxStack == 2
\* longest search query
MaxQuery == 1

-----------------------------------------------------------------------------
(* Key codes, as the source writes them. *)

NO_KEY == -1
KEY_DOT == 46
KEY_SLASH == 47
KEY_QUOTE == 39
KEY_SEMICOLON == 59
KEY_COMMA == 44
KEY_BRACKET == 91
KEY_Q == 113
KEY_ENTER == 10
KEY_DEL == 127
KEY_BS == 8
LOWER_A == 97
LOWER_Z == 122
UPPER_A == 65
UPPER_Z == 90
PRINTABLE_LO == 32
PRINTABLE_HI == 126

\* string.ascii_lowercase
tab_letters ==
    <<"a", "b", "c", "d", "e", "f", "g", "h", "i", "j", "k", "l", "m",
      "n", "o", "p", "q", "r", "s", "t", "u", "v", "w", "x", "y", "z">>

\* chr(ch) for a lowercase code, chr(ch).lower() for an uppercase one
Chr(c) == tab_letters[c - LOWER_A + 1]
ChrLower(c) == tab_letters[c - UPPER_A + 1]

-----------------------------------------------------------------------------
(* Python values. *)

\* d[k] = v on a dict
DictSet(d, k, v) == [x \in (DOMAIN d) \cup {k} |-> IF x = k THEN v ELSE d[x]]

EmptyDict == <<>>

\* a parsed front-tab answer: {"title":..., "url":...}, or {} when Safari has
\* no window; Unbound is a local that was never assigned
Tab(t, u) == [kind |-> "tab", title |-> t, url |-> u]
NoWindow == [kind |-> "empty", title |-> "", url |-> ""]
Unbound == [kind |-> "unbound", title |-> "", url |-> ""]
InitialActiveTab == Tab("", "")

\* stdout of get_safari_tabs(), stripped: nothing, or the JSON text of a list
NoOutput == ""
JsonText == "[...]"


-----------------------------------------------------------------------------
(* The tab registry: main_loop lines 419-437. *)

\* tab_exists_in_window with the bug of returning False inside the loop:
\* only the first tab of the list is compared
tab_is_first_in_window(tab_list, tab) ==
    /\ tab_list # <<>>
    /\ tab_list[1].title = tab.title
    /\ tab_list[1].url = tab.url

\* tab_exists_in_window(tab_list, tab)
tab_exists_in_window(tab_list, tab) ==
    \E j \in 1..Len(tab_list) :
        tab_list[j].title = tab.title /\ tab_list[j].url = tab.url

\* the for loop of lines 421-437 from tab i on; letter_index counts the
\* letters handed out in this pass, and running out of letters breaks
RECURSIVE AssignLetters(_, _, _, _, _)
AssignLetters(tabs, i, wins, map, letter_index) ==
    IF i > Len(tabs)
    THEN [windows |-> wins, ui_letter_map |-> map]
    ELSE
      LET tab == tabs[i]
          window_id == tab.window
          tab_info == [title |-> tab.title, url |-> tab.url]
          wins1 == IF window_id \in DOMAIN wins
                   THEN wins
                   ELSE DictSet(wins, window_id, <<>>)
      IN  IF tab_exists_in_window(wins1[window_id], tab_info)
          THEN AssignLetters(tabs, i + 1, wins1, map, letter_index)
          ELSE IF letter_index < Len(tab_letters)
          THEN
            LET letter == tab_letters[letter_index + 1]
                entry == [window |-> window_id, title |-> tab.title,
                          url |-> tab.url,
                          tab_num |-> Len(wins1[window_id]) + 1]
            IN  AssignLetters(tabs, i + 1,
                              [wins1 EXCEPT ![window_id] = Append(@, tab_info)],
                              DictSet(map, letter, entry),
                              letter_index + 1)
          ELSE [windows |-> wins1, ui_letter_map |-> map]

\* RebuildRegistry with the bug of starting at the second letter
RebuildRegistryFromOne(tabs, wins, map) == AssignLetters(tabs, 1, wins, map, 1)

\* the registry after one pass over a tab list
RebuildRegistry(tabs, wins, map) == AssignLetters(tabs, 1, wins, map, 0)

-----------------------------------------------------------------------------
(* The active-time dictionaries: main_loop lines 446-467, ui_show_tabs     *)
(* lines 262-274.                                                          *)

\* FoldActiveTime with the bug of = for += at line 458
FoldActiveTimeOverwrites(actives, starts, url, current_time) ==
    IF url \in DOMAIN starts
    THEN DictSet(actives, url, current_time - starts[url])
    ELSE actives

\* lines 452-460: the time the tab losing focus was active is added to its
\* accumulated time, when it has a start time
FoldActiveTime(actives, starts, url, current_time) ==
    IF url \in DOMAIN starts
    THEN LET duration_active == current_time - starts[url]
         IN  IF url \in DOMAIN actives
             THEN DictSet(actives, url, actives[url] + duration_active)
             ELSE DictSet(actives, url, duration_active)
    ELSE actives

\* RestartTimer with the bug of keeping a start time already recorded
RestartTimerIfNew(starts, url, current_time) ==
    IF url \in DOMAIN starts THEN starts ELSE DictSet(starts, url, current_time)

\* line 466: the start time of the tab gaining focus
RestartTimer(starts, url, current_time) == DictSet(starts, url, current_time)

\* lines 264-270: the seconds ui_show_tabs shows for a url
ActiveTimeSeconds(url, current_time) ==
    LET running == IF url \in DOMAIN tab_start_times
                   THEN current_time - tab_start_times[url]
                   ELSE 0
    IN  IF url \in DOMAIN tab_active_times
        THEN running + tab_active_times[url]
        ELSE running

\* format_duration(seconds): "Xm Ys" as the pair <<X, Y>>
format_duration(seconds) == <<seconds \div 60, seconds % 60>>

-----------------------------------------------------------------------------
(* Rendering: ui_show_tabs and ui_show_tabs_full.  Row idx carries the     *)
(* letter string.ascii_lowercase[idx-1].                                   *)

Min(a, b) == IF a < b THEN a ELSE b

\* rows the for loop reaches before "if idx >= max_y: break"
RowsReached(tabs, max_y) == Min(Len(tabs), max_y - 1)

\* the rows written before the loop ends or ascii_lowercase[idx-1] raises
RowsWritten(tabs, max_y) == Min(RowsReached(tabs, max_y), Len(tab_letters))

Row(idx, tab, show_times) ==
    [letter |-> tab_letters[idx], window |-> tab.window, title |-> tab.title,
     url |-> tab.url,
     elapsed |-> IF show_times
                 THEN format_duration(ActiveTimeSeconds(tab.url, clock))
                 ELSE <<>>]

ui_show_tabs(tabs, max_y, show_times) ==
    [idx \in 1..RowsWritten(tabs, max_y) |-> Row(idx, tabs[idx], show_times)]

ui_show_tabs_full(tabs, max_y) ==
    [idx \in 1..RowsWritten(tabs, max_y) |-> Row(idx, tabs[idx], FALSE)]

-----------------------------------------------------------------------------
(* Commands sent to Safari (osascript calls) and to the history database. *)

Cmd(op, window, tab_num, url) ==
    [op |-> op, window |-> window, tab_num |-> tab_num, url |-> url,
     query |-> <<>>]
SearchCmd(query) ==
    [op |-> "search", window |-> 0, tab_num |-> 0, url |-> "", query |-> query]

\* ListTop with the bug of pop(0): the oldest element
ListBottom(stack) == stack[1]

\* list.pop(): the popped element and the list left
ListTop(stack) == stack[Len(stack)]
ListPop(stack) == SubSeq(stack, 1, Len(stack) - 1)


-----------------------------------------------------------------------------
(* The state after construction: the globals of lines 55-60 and the locals *)
(* of main_loop, lines 390-396.                                            *)

Init ==
    /\ pc = "poll"
    /\ windows = EmptyDict
    /\ ui_letter_map = EmptyDict
    /\ closed_tabs_stack = <<>>
    /\ tab_start_times = EmptyDict
    /\ tab_active_times = EmptyDict
    /\ activeTab = InitialActiveTab
    /\ current_active_tab = Unbound
    /\ tabs_list = <<>>
    /\ result = NoOutput
    /\ active_tab_result = Unbound
    /\ fSearchMode = FALSE
    /\ fShowFullTitle = FALSE
    /\ fShowTabTimeActive = FALSE
    /\ search_query = <<>>
    /\ ch = NO_KEY
    /\ clock = 0
    /\ screen = <<>>
    /\ sink = <<>>
    /\ front_seen = Unbound
    /\ front_since = 0
    /\ focus_total = EmptyDict

\* LoopTop with the bug of fetching the tabs in search mode too
LoopTopAlwaysPolls(search) == "poll"

\* where the while loop goes after line 524: the branch of line 406
LoopTop(search) == IF search THEN "key2" ELSE "poll"

-----------------------------------------------------------------------------
(* Lines 411-437: fetch the tab list and pass it through the registry.     *)

\* get_safari_tabs() printed nothing, or no JSON: json.loads raises at 414
PollFails ==
    /\ pc = "poll"
    /\ result' = NoOutput
    /\ pc' = "crashed"
    /\ UNCHANGED <<windows, ui_letter_map, closed_tabs_stack, tab_start_times,
                   tab_active_times, activeTab, current_active_tab, tabs_list,
                   fSearchMode, fShowFullTitle, fShowTabTimeActive,
                   search_query, ch, clock, screen, sink, active_tab_result,
                   front_seen, front_since, focus_total>>

Poll(tabs) ==
    /\ pc = "poll"
    /\ result' = JsonText
    /\ tabs_list' = tabs
    /\ LET r == RebuildRegistry(tabs, windows, ui_letter_map)
       IN  /\ windows' = r.windows
           /\ ui_letter_map' = r.ui_letter_map
    /\ pc' = "observe"
    /\ UNCHANGED <<closed_tabs_stack, tab_start_times, tab_active_times,
                   activeTab, current_active_tab, fSearchMode, fShowFullTitle,
                   fShowTabTimeActive, search_query, ch, clock, screen, sink,
                   active_tab_result, front_seen, front_since, focus_total>>

-----------------------------------------------------------------------------
(* Lines 440-467: ask for the front tab and update the timers.  The answer *)
(* is a tab, {} (no window), or text json.loads rejects.                   *)

BadJson == [kind |-> "bad", title |-> "", url |-> ""]

\* the history of the answers of lines 442-443 at the times they were given:
\* an answer that parses and differs from the one before ends the spell of
\* the tab in front until now, which is added to the total of its url
ObservationHistory(answer) ==
    IF result = NoOutput \/ answer = BadJson \/ answer = front_seen
    THEN UNCHANGED <<front_seen, front_since, focus_total>>
    ELSE /\ front_seen' = answer
         /\ front_since' = clock
         /\ focus_total' =
                IF front_seen.kind # "tab" THEN focus_total
                ELSE LET url == front_seen.url
                         before == IF url \in DOMAIN focus_total
                                   THEN focus_total[url] ELSE 0
                     IN  DictSet(focus_total, url,
                                 before + (clock - front_since))

Observe(answer) ==
    /\ pc = "observe"
    /\ ObservationHistory(answer)
    /\ IF result = NoOutput
       THEN \* line 477: "Error fetching tabs", nothing asked, nothing drawn
            /\ pc' = "key1"
            /\ UNCHANGED <<active_tab_result, current_active_tab, activeTab,
                           tab_start_times, tab_active_times>>
       ELSE
         LET cur == IF answer = BadJson THEN current_active_tab ELSE answer
         IN  /\ active_tab_result' = answer
             /\ current_active_tab' = cur
             /\ IF cur = Unbound
                THEN \* line 446 reads a local never assigned
                     /\ pc' = "crashed"
                     /\ UNCHANGED <<activeTab, tab_start_times,
                                    tab_active_times>>
                ELSE IF cur = activeTab
                THEN /\ pc' = "render"
                     /\ UNCHANGED <<activeTab, tab_start_times,
                                    tab_active_times>>
                ELSE /\ tab_active_times' =
                            FoldActiveTime(tab_active_times, tab_start_times,
                                           activeTab.url, clock)
                     /\ activeTab' = cur
                     /\ IF cur = NoWindow
                        THEN \* line 466: {}['url'] raises KeyError
                             /\ pc' = "crashed"
                             /\ UNCHANGED tab_start_times
                        ELSE /\ tab_start_times' =
                                    RestartTimer(tab_start_times, cur.url,
                                                 clock)
                             /\ pc' = "render"
    /\ UNCHANGED <<windows, ui_letter_map, closed_tabs_stack, tabs_list,
                   fSearchMode, fShowFullTitle, fShowTabTimeActive,
                   search_query, ch, clock, screen, sink, result>>

-----------------------------------------------------------------------------
(* Lines 468-477: draw the tab list on a terminal max_y lines high.        *)

Render(max_y) ==
    /\ pc = "render"
    /\ screen' = IF fShowFullTitle
                 THEN ui_show_tabs_full(tabs_list, max_y)
                 ELSE ui_show_tabs(tabs_list, max_y, fShowTabTimeActive)
    /\ pc' = IF RowsReached(tabs_list, max_y) > Len(tab_letters)
             THEN "crashed"   \* ascii_lowercase[26]: IndexError
             ELSE "key1"
    /\ UNCHANGED <<windows, ui_letter_map, closed_tabs_stack, tab_start_times,
                   tab_active_times, activeTab, current_active_tab, tabs_list,
                   fSearchMode, fShowFullTitle, fShowTabTimeActive,
                   search_query, ch, clock, sink, result, active_tab_result,
                   front_seen, front_since, focus_total>>


-----------------------------------------------------------------------------
(* The key handlers.  Each sets pc, tab_start_times, closed_tabs_stack and *)
(* sink, the variables a handler called from line 483-502 can change; sink *)
(* holds the osascript calls (and history searches) of this one handler.   *)

\* manage_safari_tab(tab_letter, close_tab), lines 145-163
manage_safari_tab(tab_letter, close_tab) ==
    /\ tab_start_times' = IF ~close_tab
                          THEN DictSet(tab_start_times, tab_letter, clock)
                          ELSE tab_start_times
    /\ IF tab_letter \notin DOMAIN ui_letter_map
       THEN \* line 155: ui_letter_map[tab_letter] raises KeyError
            /\ pc' = "crashed"
            /\ sink' = <<>>
            /\ UNCHANGED closed_tabs_stack
       ELSE LET target_tab == ui_letter_map[tab_letter]
            IN  IF close_tab
                THEN /\ Len(closed_tabs_stack) < MaxStack
                     /\ sink' = <<Cmd("close", target_tab.window,
                                      target_tab.tab_num, "")>>
                     /\ closed_tabs_stack' =
                            Append(closed_tabs_stack, target_tab.url)
                     /\ pc' = "key2"
                ELSE /\ sink' = <<Cmd("activate", target_tab.window,
                                      target_tab.tab_num, "")>>
                     /\ pc' = "key2"
                     /\ UNCHANGED closed_tabs_stack

\* reopen_last_closed_tab with the bug of popping without the test of
\* line 99: list.pop() of an empty list raises IndexError
reopen_without_test ==
    /\ IF closed_tabs_stack # <<>>
       THEN LET last_closed_url == ListTop(closed_tabs_stack)
            IN  /\ closed_tabs_stack' = ListPop(closed_tabs_stack)
                /\ sink' = <<Cmd("reopen", 1, 0, last_closed_url)>>
                /\ pc' = "key2"
       ELSE /\ sink' = <<>>
            /\ pc' = "crashed"
            /\ UNCHANGED closed_tabs_stack
    /\ UNCHANGED tab_start_times

\* reopen_last_closed_tab(), lines 97-110
reopen_last_closed_tab ==
    /\ IF closed_tabs_stack # <<>>
       THEN LET last_closed_url == ListTop(closed_tabs_stack)
            IN  /\ closed_tabs_stack' = ListPop(closed_tabs_stack)
                /\ sink' = <<Cmd("reopen", 1, 0, last_closed_url)>>
       ELSE /\ sink' = <<>>
            /\ UNCHANGED closed_tabs_stack
    /\ pc' = "key2"
    /\ UNCHANGED tab_start_times

\* close_current_safari_tab(), lines 112-131; stdout is what "get URL of
\* current tab" printed, stripped ("" when the call failed)
close_current_safari_tab(stdout) ==
    /\ IF stdout # ""
       THEN /\ Len(closed_tabs_stack) < MaxStack
            /\ closed_tabs_stack' = Append(closed_tabs_stack, stdout)
       ELSE UNCHANGED closed_tabs_stack
    /\ sink' = <<Cmd("close_current", 0, 0, "")>>
    /\ pc' = "key2"
    /\ UNCHANGED tab_start_times

\* activate_safari(), lines 133-142
activate_safari ==
    /\ sink' = <<Cmd("focus", 0, 0, "")>>
    /\ pc' = "key2"
    /\ UNCHANGED <<tab_start_times, closed_tabs_stack>>

NoCommand ==
    /\ pc' = "key2"
    /\ sink' = <<>>
    /\ UNCHANGED <<tab_start_times, closed_tabs_stack>>

-----------------------------------------------------------------------------
(* Lines 480-502: the first getch() of an iteration and its elif chain.    *)

Key1(c, stdout) ==
    /\ pc = "key1"
    /\ ch' = c
    /\ fShowFullTitle' = IF c = KEY_DOT THEN ~fShowFullTitle ELSE fShowFullTitle
    /\ fSearchMode' = IF c = KEY_COMMA THEN TRUE ELSE fSearchMode
    /\ fShowTabTimeActive' =
           IF c = KEY_BRACKET THEN ~fShowTabTimeActive ELSE fShowTabTimeActive
    /\ IF c = NO_KEY THEN NoCommand
       ELSE IF c = KEY_DOT THEN NoCommand
       ELSE IF LOWER_A <= c /\ c <= LOWER_Z
            THEN manage_safari_tab(Chr(c), FALSE)
       ELSE IF UPPER_A <= c /\ c <= UPPER_Z
            THEN manage_safari_tab(ChrLower(c), TRUE)
       ELSE IF c = KEY_SLASH THEN activate_safari
       ELSE IF c = KEY_QUOTE THEN close_current_safari_tab(stdout)
       ELSE IF c = KEY_SEMICOLON THEN reopen_last_closed_tab
       ELSE IF c = KEY_COMMA THEN NoCommand
       ELSE IF c = KEY_BRACKET THEN NoCommand
       ELSE IF c = KEY_Q
            THEN /\ pc' = "done"
                 /\ sink' = <<>>
                 /\ UNCHANGED <<tab_start_times, closed_tabs_stack>>
       ELSE NoCommand
    /\ UNCHANGED <<windows, ui_letter_map, tab_active_times, activeTab,
                   current_active_tab, tabs_list, search_query, clock, screen,
                   result, active_tab_result, front_seen, front_since,
                   focus_total>>

-----------------------------------------------------------------------------
(* Lines 505-524: the second getch() and the search-mode keys; then the    *)
(* loop starts over and clears the screen (line 403).                      *)

\* search_query[:-1]
DropLast(q) == IF q = <<>> THEN q ELSE SubSeq(q, 1, Len(q) - 1)

Key2(c) ==
    /\ pc = "key2"
    /\ ch' = c
    /\ IF c = KEY_COMMA
       THEN /\ fSearchMode' = ~fSearchMode
            /\ search_query' = <<>>
            /\ sink' = <<>>
            /\ pc' = LoopTop(fSearchMode')
       ELSE IF c = KEY_Q /\ ~fSearchMode
       THEN /\ pc' = "done"
            /\ sink' = <<>>
            /\ UNCHANGED <<fSearchMode, search_query>>
       ELSE IF fSearchMode
       THEN IF c = KEY_ENTER
            THEN \* perform_search(stdscr, search_query), then line 517
                 /\ sink' = <<SearchCmd(search_query)>>
                 /\ fSearchMode' = FALSE
                 /\ pc' = LoopTop(FALSE)
                 /\ UNCHANGED search_query
            ELSE IF c = KEY_DEL \/ c = KEY_BS
            THEN /\ search_query' = DropLast(search_query)
                 /\ sink' = <<>>
                 /\ pc' = LoopTop(fSearchMode)
                 /\ UNCHANGED fSearchMode
            ELSE IF c >= PRINTABLE_LO /\ c <= PRINTABLE_HI
            THEN /\ Len(search_query) < MaxQuery
                 /\ search_query' = Append(search_query, c)
                 /\ sink' = <<>>
                 /\ pc' = LoopTop(fSearchMode)
                 /\ UNCHANGED fSearchMode
            ELSE /\ sink' = <<>>
                 /\ pc' = LoopTop(fSearchMode)
                 /\ UNCHANGED <<fSearchMode, search_query>>
       ELSE /\ sink' = <<>>
            /\ pc' = LoopTop(fSearchMode)
            /\ UNCHANGED <<fSearchMode, search_query>>
    /\ screen' = IF pc' = "done" THEN screen ELSE <<>>
    /\ UNCHANGED <<windows, ui_letter_map, closed_tabs_stack, tab_start_times,
                   tab_active_times, activeTab, current_active_tab, tabs_list,
                   fShowFullTitle, fShowTabTimeActive, clock, result,
                   active_tab_result, front_seen, front_since, focus_total>>

-----------------------------------------------------------------------------
(* time.time() moves on between any two steps of a running program.        *)

Tick ==
    /\ pc \notin {"done", "crashed"}
    /\ clock < MaxTime
    /\ clock' = clock + 1
    /\ UNCHANGED <<pc, windows, ui_letter_map, closed_tabs_stack,
                   tab_start_times, tab_active_times, activeTab,
                   current_active_tab, tabs_list, fSearchMode, fShowFullTitle,
                   fShowTabTimeActive, search_query, ch, screen, sink, result,
                   active_tab_result, front_seen, front_since, focus_total>>


-----------------------------------------------------------------------------
(* What the outside world can answer. *)

TabRec(w, t, u) == [window |-> w, title |-> t, url |-> u]

SeqsUpTo(S, n) == UNION {[1..k -> S] : k \in 0..n}

\* get_safari_tabs lists the tabs window by window
Grouped(tabs) ==
    \A i, j \in 1..Len(tabs) : i < j => tabs[i].window <= tabs[j].window

\* a standard terminal, and one too low for the list
TermHeights == {3, 24}

-----------------------------------------------------------------------------
(* SpecRegistry: the registry under every short tab list over three pages  *)
(* in window 1 and one of them again in window 2, with a steady front tab  *)
(* and no key pressed.                                                     *)

RegistryTabs ==
    {TabRec(1, "Mail", "mail.com"), TabRec(1, "Docs", "docs.com"),
     TabRec(1, "Chat", "chat.com"), TabRec(2, "Mail", "mail.com")}

RegistrySnapshots == {s \in SeqsUpTo(RegistryTabs, MaxLen) : Grouped(s)}

NextRegistry ==
    \/ \E tabs \in RegistrySnapshots : Poll(tabs)
    \/ Observe(Tab("Mail", "mail.com"))
    \/ \E max_y \in TermHeights : Render(max_y)
    \/ Key1(NO_KEY, "")
    \/ Key2(NO_KEY)

SpecRegistry == Init /\ [][NextRegistry]_vars


-----------------------------------------------------------------------------
(* SpecDispatch: the key handlers over two pages of one window, a steady   *)
(* front tab, and the keys that reach Safari: a, b, A, B, ', ;, /.         *)

DispatchSnapshots ==
    {<<>>,
     <<TabRec(1, "Mail", "mail.com")>>,
     <<TabRec(1, "Docs", "docs.com")>>,
     <<TabRec(1, "Mail", "mail.com"), TabRec(1, "Docs", "docs.com")>>}

DispatchKeys ==
    {NO_KEY, LOWER_A, LOWER_A + 1, UPPER_A, UPPER_A + 1,
     KEY_QUOTE, KEY_SEMICOLON, KEY_SLASH}

\* what "get URL of current tab" can print
CurrentTabUrls == {"", "mail.com", "docs.com"}

NextDispatch ==
    \/ \E tabs \in DispatchSnapshots : Poll(tabs)
    \/ Observe(Tab("Mail", "mail.com"))
    \/ \E max_y \in TermHeights : Render(max_y)
    \/ \E c \in DispatchKeys, stdout \in CurrentTabUrls : Key1(c, stdout)
    \/ Key2(NO_KEY)

SpecDispatch == Init /\ [][NextDispatch]_vars

-----------------------------------------------------------------------------
(* SpecTracker: the timers under a moving front tab and a running clock,   *)
(* over a fixed tab list; Safari may also answer nothing, {} or no JSON.   *)

TrackerUrls == {"mail.com", "docs.com"}

TrackerSnapshot ==
    <<TabRec(1, "Mail", "mail.com"), TabRec(1, "Docs", "docs.com")>>

\* the front tab: one of two pages, or the first under a changed title
FrontTabAnswers ==
    {Tab("Mail", "mail.com"), Tab("Inbox", "mail.com"),
     Tab("Docs", "docs.com"), NoWindow, BadJson}

TrackerKeys == {NO_KEY, KEY_BRACKET, LOWER_A}

NextTracker ==
    \/ Poll(TrackerSnapshot)
    \/ PollFails
    \/ \E answer \in FrontTabAnswers : Observe(answer)
    \/ \E max_y \in TermHeights : Render(max_y)
    \/ \E c \in TrackerKeys : Key1(c, "")
    \/ Key2(NO_KEY)
    \/ Tick

SpecTracker == Init /\ [][NextTracker]_vars

-----------------------------------------------------------------------------
(* Vocabulary of the registry properties. *)

\* the identity (window_id, title, url) of a tab or of a registry entry
Identity(t) == <<t.window, t.title, t.url>>
Identities(tabs) == {Identity(tabs[i]) : i \in DOMAIN tabs}

\* the letters under which the registry lists identity x
LettersOf(map, x) == {l \in DOMAIN map : Identity(map[l]) = x}

AllLetters == {tab_letters[i] : i \in DOMAIN tab_letters}
LetterIndex(l) == CHOOSE i \in DOMAIN tab_letters : tab_letters[i] = l

\* a step that polls a tab list and rebuilds the registry from it
IsRebuild == pc = "poll" /\ pc' = "observe"

\* letter l is held, in map, by an identity of the tab list
HeldByPresent(map, l, tabs) ==
    l \in DOMAIN map /\ Identity(map[l]) \in Identities(tabs)

(* C1 -- letter stability: over a rebuild from tab list S1 (tabs_list) to   *)
(* S2 (tabs_list'), an identity of S1 that held letter l and is in S2 still *)
(* holds l afterwards.                                                      *)
C1_LetterStability ==
    [][IsRebuild =>
         \A l \in DOMAIN ui_letter_map :
             (/\ Identity(ui_letter_map[l]) \in Identities(tabs_list)
              /\ Identity(ui_letter_map[l]) \in Identities(tabs_list'))
             => /\ l \in DOMAIN ui_letter_map'
                /\ Identity(ui_letter_map'[l]) = Identity(ui_letter_map[l])]_vars

(* C2 -- addressability: after a rebuild, an identity of the tab list has   *)
(* no letter only if all 26 letters are held by other identities of that    *)
(* list (so with at most 26 identities every one has a letter).             *)
C2_Addressable ==
    pc = "observe" =>
        \A x \in Identities(tabs_list) :
            LettersOf(ui_letter_map, x) = {} =>
                \A l \in AllLetters :
                    /\ HeldByPresent(ui_letter_map, l, tabs_list)
                    /\ Identity(ui_letter_map[l]) # x

(* C3 -- lowest unused letter: over a rebuild, an identity of the new tab   *)
(* list that held no letter before gets (when a letter is free) a letter    *)
(* that no still-present identity held, and every lower letter is then in   *)
(* use by an identity of the new list.                                      *)
C3_LowestUnusedLetter ==
    [][IsRebuild =>
         \A y \in Identities(tabs_list') :
             (/\ LettersOf(ui_letter_map, y) = {}
              /\ \E l \in AllLetters :
                     ~HeldByPresent(ui_letter_map, l, tabs_list'))
             => \E l \in LettersOf(ui_letter_map', y) :
                    /\ ~HeldByPresent(ui_letter_map, l, tabs_list')
                    /\ \A k \in AllLetters :
                           LetterIndex(k) < LetterIndex(l)
                           => HeldByPresent(ui_letter_map', k, tabs_list')]_vars

(* C4 -- letter release: after a rebuild every letter of the registry maps  *)
(* to an identity of the tab list just processed (none, for an empty list). *)
C4_LetterRelease ==
    pc = "observe" =>
        \A l \in DOMAIN ui_letter_map :
            Identity(ui_letter_map[l]) \in Identities(tabs_list)

(* C5 -- display/registry agreement: once the list is drawn, the letter of  *)
(* every row resolves in the registry to the tab the row shows.             *)
C5_DisplayMatchesRegistry ==
    pc = "key1" =>
        \A i \in DOMAIN screen :
            /\ screen[i].letter \in DOMAIN ui_letter_map
            /\ Identity(ui_letter_map[screen[i].letter]) = Identity(screen[i])


-----------------------------------------------------------------------------
(* Vocabulary of the dispatch properties. *)

\* a step that reads the first key of an iteration and runs its handler;
\* the key read is ch'
IsDispatch == pc = "key1" /\ pc' # "key1"

IsLower(c) == LOWER_A <= c /\ c <= LOWER_Z
IsUpper(c) == UPPER_A <= c /\ c <= UPPER_Z

\* the registry letter a letter key addresses
LetterOfKey(c) == IF IsLower(c) THEN Chr(c) ELSE ChrLower(c)

(* C6 -- stale letter: dispatching a lowercase or uppercase letter that has *)
(* no registry entry sends no command, leaves stack, registry and timers    *)
(* unchanged, and the loop goes on to its next step.                        *)
C6_StaleLetterNoOp ==
    [][(/\ IsDispatch
        /\ IsLower(ch') \/ IsUpper(ch')
        /\ LetterOfKey(ch') \notin DOMAIN ui_letter_map)
       => /\ sink' = <<>>
          /\ pc' = "key2"
          /\ UNCHANGED <<closed_tabs_stack, windows, ui_letter_map,
                         tab_start_times, tab_active_times, activeTab>>]_vars

-----------------------------------------------------------------------------
(* Vocabulary of the timer properties. *)

\* elapsed(url, now): the seconds the list shows for url at time now
Elapsed(url) == ActiveTimeSeconds(url, clock)

(* C7 -- active-time freeze: while the front tab last observed is not url   *)
(* u, before and after a step, the elapsed time of u does not change.       *)
C7_ActiveTimeFreeze ==
    [][\A u \in TrackerUrls :
           (activeTab.url # u /\ activeTab'.url # u)
           => Elapsed(u)' = Elapsed(u)]_vars

(* C8 -- active-time monotonicity: over any step before and after which the *)
(* front tab last observed has url u, the elapsed time of u grows by        *)
(* exactly the time the clock moved.                                        *)
C8_ActiveTimeMonotone ==
    [][\A u \in TrackerUrls :
           (activeTab.url = u /\ activeTab'.url = u)
           => Elapsed(u)' - Elapsed(u) = clock' - clock]_vars

\* mail.com is in front again after an earlier spell, and time has run
C8_Witness ==
    /\ activeTab.url = "mail.com"
    /\ "mail.com" \in DOMAIN tab_active_times
    /\ tab_active_times["mail.com"] > 0
    /\ "mail.com" \in DOMAIN tab_start_times
    /\ clock > tab_start_times["mail.com"]
    /\ pc = "key1"
    /\ fShowTabTimeActive
    /\ \E i \in DOMAIN screen :
           /\ screen[i].url = "mail.com"
           /\ screen[i].elapsed = format_duration(Elapsed("mail.com"))

-----------------------------------------------------------------------------
(* C9 -- undo LIFO: every handler leaves the stack alone, pushes one url on *)
(* top of it (sending no reopen), or removes its top url and sends reopen   *)
(* with exactly that url; nothing else touches the stack.                   *)
C9_UndoLIFO ==
    [][/\ IsDispatch =>
            \/ /\ closed_tabs_stack' = closed_tabs_stack
               /\ \A i \in DOMAIN sink' : sink'[i].op # "reopen"
            \/ /\ \E u \in CurrentTabUrls \ {""} :
                      closed_tabs_stack' = Append(closed_tabs_stack, u)
               /\ \A i \in DOMAIN sink' : sink'[i].op # "reopen"
            \/ /\ closed_tabs_stack # <<>>
               /\ closed_tabs_stack' =
                      SubSeq(closed_tabs_stack, 1, Len(closed_tabs_stack) - 1)
               /\ sink' = <<Cmd("reopen", 1, 0,
                                closed_tabs_stack[Len(closed_tabs_stack)])>>
       /\ ~IsDispatch => closed_tabs_stack' = closed_tabs_stack]_vars

\* docs.com was closed after mail.com and has just been reopened first
C9_Witness ==
    /\ pc = "key2"
    /\ sink = <<Cmd("reopen", 1, 0, "docs.com")>>
    /\ closed_tabs_stack = <<"mail.com">>

(* C10 -- close by letter: closing letter L with entry E sends              *)
(* close(E.window, E.tab_num), pushes E.url once, and the registry no       *)
(* longer lists L.                                                          *)
C10_CloseByLetter ==
    [][(/\ IsDispatch
        /\ IsUpper(ch')
        /\ ChrLower(ch') \in DOMAIN ui_letter_map)
       => LET E == ui_letter_map[ChrLower(ch')]
          IN  /\ sink' = <<Cmd("close", E.window, E.tab_num, "")>>
              /\ closed_tabs_stack' = Append(closed_tabs_stack, E.url)
              /\ ChrLower(ch') \notin DOMAIN ui_letter_map']_vars

-----------------------------------------------------------------------------
(* C11 -- snapshot failure: a poll in which get_safari_tabs() printed       *)
(* nothing leaves registry, timers and stack as they were and the loop      *)
(* goes on (it neither crashes nor ends).                                   *)
C11_SnapshotFailureRecovered ==
    [][(pc = "poll" /\ pc' # "poll" /\ result' = NoOutput)
       => /\ pc' \notin {"crashed", "done"}
          /\ UNCHANGED <<windows, ui_letter_map, closed_tabs_stack,
                         tab_start_times, tab_active_times, activeTab>>]_vars

-----------------------------------------------------------------------------
(* SpecKeys: both getch() calls of an iteration under the keys that steer  *)
(* the loop (q, comma, dot, bracket, Enter, delete, a letter), over an     *)
(* empty list, a one-tab list and a list long enough to give out letter q. *)

PageNames ==
    <<"p01", "p02", "p03", "p04", "p05", "p06", "p07", "p08", "p09", "p10",
      "p11", "p12", "p13", "p14", "p15", "p16", "p17", "p18", "p19", "p20",
      "p21", "p22", "p23", "p24", "p25", "p26", "p27", "p28", "p29", "p30">>

\* tabs first..last of a window showing one page each
Pages(w, first, last) ==
    [i \in 1..(last - first + 1) |->
        TabRec(w, PageNames[first + i - 1], PageNames[first + i - 1])]

\* as many tabs as it takes for the last to get the letter q
TabsUpToQ == Pages(1, 1, KEY_Q - LOWER_A + 1)

KeysSnapshots == {<<>>, <<TabRec(1, "Mail", "mail.com")>>, TabsUpToQ}

FirstKeys == {NO_KEY, KEY_Q, KEY_COMMA, KEY_DOT, KEY_BRACKET, LOWER_A}

SecondKeys == {NO_KEY, KEY_Q, KEY_COMMA, KEY_ENTER, KEY_DEL, LOWER_A}

NextKeys ==
    \/ \E tabs \in KeysSnapshots : Poll(tabs)
    \/ Observe(Tab("Mail", "mail.com"))
    \/ \E max_y \in TermHeights : Render(max_y)
    \/ \E c \in FirstKeys : Key1(c, "")
    \/ \E c \in SecondKeys : Key2(c)

SpecKeys == Init /\ [][NextKeys]_vars

\* a step that reads the second key of an iteration (any step at "key2"
\* that is not the clock's)
IsSecondRead == pc = "key2" /\ clock' = clock

(* C12 -- quit: when q is the key read in a Browsing iteration, by the      *)
(* first or the second getch(), the loop ends there, no command is sent     *)
(* and q is not taken for a tab letter (no timer entry is written).         *)
C12_QuitTerminates ==
    [][/\ (IsDispatch /\ ch' = KEY_Q)
          => /\ pc' = "done"
             /\ sink' = <<>>
             /\ tab_start_times' = tab_start_times
       /\ (IsSecondRead /\ ~fSearchMode /\ ch' = KEY_Q)
          => /\ pc' = "done"
             /\ sink' = <<>>]_vars

(* C18 -- no keystroke lost: in a Browsing iteration the second getch()     *)
(* reads no key when the first one read one, and a key it reads is one it   *)
(* dispatches (comma or q).                                                 *)
C18_NoKeyDiscarded ==
    [][(IsSecondRead /\ ~fSearchMode)
       => /\ ch' \in {NO_KEY, KEY_COMMA, KEY_Q}
          /\ ch # NO_KEY => ch' = NO_KEY]_vars

-----------------------------------------------------------------------------
(* SpecOverflow: the registry under tab lists with more identities than    *)
(* letters: 27 pages in one window, 30 tabs over two windows, and 29 tabs  *)
(* of which one is listed twice; on terminals of 24 and 40 lines.          *)

Tabs27 == Pages(1, 1, 27)

Tabs30 == Pages(1, 1, 20) \o Pages(2, 21, 30)

Tabs29Twice == Pages(1, 1, 3) \o Pages(1, 2, 2) \o Pages(1, 4, 28)

OverflowSnapshots == {<<>>, Pages(1, 1, 2), Tabs27, Tabs30, Tabs29Twice}

TallTermHeights == {24, 40}

NextOverflow ==
    \/ \E tabs \in OverflowSnapshots : Poll(tabs)
    \/ Observe(Tab("p01", "p01"))
    \/ \E max_y \in TallTermHeights : Render(max_y)
    \/ Key1(NO_KEY, "")
    \/ Key2(NO_KEY)

SpecOverflow == Init /\ [][NextOverflow]_vars

(* C13 -- identical snapshot: a rebuild from the same tab list as the poll  *)
(* before leaves the letter -> identity mapping as it was.                  *)
C13_IdenticalSnapshotIdempotent ==
    [][(IsRebuild /\ result = JsonText /\ tabs_list' = tabs_list)
       => ui_letter_map' = ui_letter_map]_vars

\* the identities of a tab list in the order they first occur
RECURSIVE DistinctFrom(_, _, _)
DistinctFrom(tabs, i, acc) ==
    IF i > Len(tabs) THEN acc
    ELSE IF \E j \in DOMAIN acc : acc[j] = Identity(tabs[i])
         THEN DistinctFrom(tabs, i + 1, acc)
         ELSE DistinctFrom(tabs, i + 1, Append(acc, Identity(tabs[i])))
DistinctInOrder(tabs) == DistinctFrom(tabs, 1, <<>>)

(* C14 -- overflow: a rebuild that starts from an empty registry and reads  *)
(* a tab list of more than 26 identities gives a..z, in that order, to the  *)
(* first 26 identities of the list; the others hold no letter and no two    *)
(* letters hold the same identity.                                          *)
C14_Overflow ==
    [][(/\ IsRebuild
        /\ ui_letter_map = EmptyDict
        /\ Cardinality(Identities(tabs_list')) > Len(tab_letters))
       => LET ids == DistinctInOrder(tabs_list')
          IN  /\ DOMAIN ui_letter_map' = AllLetters
              /\ \A i \in DOMAIN tab_letters :
                     Identity(ui_letter_map'[tab_letters[i]]) = ids[i]
              /\ \A i \in (Len(tab_letters) + 1)..Len(ids) :
                     LettersOf(ui_letter_map', ids[i]) = {}
              /\ \A l, k \in DOMAIN ui_letter_map' :
                     l # k => Identity(ui_letter_map'[l])
                              # Identity(ui_letter_map'[k])]_vars

\* the 29-tab list was read into an empty registry: its doubled tab took one
\* letter, so z went to the 27th tab of the list
C14_Witness ==
    /\ pc = "observe"
    /\ tabs_list = Tabs29Twice
    /\ Cardinality(DOMAIN ui_letter_map) = Len(tab_letters)
    /\ Identity(ui_letter_map["a"]) = Identity(tabs_list[1])
    /\ Identity(ui_letter_map["z"]) = Identity(tabs_list[27])
    /\ LettersOf(ui_letter_map, Identity(tabs_list[28])) = {}

\* tabs i < j of a tab list are the same tab listed twice in one window
SameTabTwice(tabs, i, j) == i < j /\ Identity(tabs[i]) = Identity(tabs[j])

\* tabs i and j show the same page in different windows
SamePageElsewhere(tabs, i, j) ==
    /\ tabs[i].window # tabs[j].window
    /\ tabs[i].title = tabs[j].title
    /\ tabs[i].url = tabs[j].url

(* C15 -- dedup: after a rebuild, a tab the list just read holds twice in   *)
(* one window is under exactly one letter, and a page the list holds in two *)
(* windows is under one letter for each window.                             *)
C15_Dedup ==
    pc = "observe" =>
        \A i, j \in DOMAIN tabs_list :
            (SameTabTwice(tabs_list, i, j) \/ SamePageElsewhere(tabs_list, i, j))
            => Cardinality(LettersOf(ui_letter_map, Identity(tabs_list[i]))) = 1

\* the tabs of window w in a tab list, in list order
RECURSIVE TabsOfWindow(_, _)
TabsOfWindow(tabs, w) ==
    IF tabs = <<>> THEN <<>>
    ELSE IF Head(tabs).window = w
         THEN <<Head(tabs)>> \o TabsOfWindow(Tail(tabs), w)
         ELSE TabsOfWindow(Tail(tabs), w)

(* C17 -- position correctness: after a rebuild, every registry entry of a  *)
(* tab in the list just read has as tab_num the index, within its window in *)
(* that list, of a tab with the entry's title and url.                      *)
C17_PositionCorrect ==
    pc = "observe" =>
        \A l \in DOMAIN ui_letter_map :
            HeldByPresent(ui_letter_map, l, tabs_list)
            => LET E == ui_letter_map[l]
                   W == TabsOfWindow(tabs_list, E.window)
               IN  /\ E.tab_num \in DOMAIN W
                   /\ W[E.tab_num].title = E.title
                   /\ W[E.tab_num].url = E.url

(* C16 -- reopen on an empty undo stack: the reopen key pressed while the   *)
(* stack is empty sends no command, leaves the stack empty and the registry *)
(* and the tracker as they were, and the loop goes on to its next read.     *)
C16_ReopenOnEmptyStack ==
    [][(/\ IsDispatch
        /\ ch' = KEY_SEMICOLON
        /\ closed_tabs_stack = <<>>)
       => /\ sink' = <<>>
          /\ closed_tabs_stack' = <<>>
          /\ pc' = "key2"
          /\ UNCHANGED <<windows, ui_letter_map, activeTab,
                         tab_start_times, tab_active_times>>]_vars

\* the reopen key was handled with nothing to reopen
C16_Witness ==
    /\ pc = "key2"
    /\ ch = KEY_SEMICOLON
    /\ sink = <<>>
    /\ closed_tabs_stack = <<>>

\* a step that asks for the front tab and brings the timers up to date
IsObserve == pc = "observe" /\ pc' # "observe"

(* C19 -- active-tab parse failure: an observe step whose front-tab answer  *)
(* cannot be parsed leaves the active tab and every timer as they were and  *)
(* goes on to rendering.                                                    *)
C19_ParseFailureNonFatal ==
    [][(IsObserve /\ active_tab_result' = BadJson)
       => /\ pc' = "render"
          /\ UNCHANGED <<activeTab, tab_start_times, tab_active_times>>]_vars

(* C20 -- tracker frame: the start times and the accumulated times change   *)
(* only in an observe step that sees a new front tab; the dispatch of a key *)
(* changes no record and no record key.                                     *)
C20_TrackerFrame ==
    [][/\ (tab_start_times' # tab_start_times
           \/ tab_active_times' # tab_active_times)
          => (IsObserve /\ activeTab' # activeTab)
       /\ IsDispatch => /\ DOMAIN tab_start_times' = DOMAIN tab_start_times
                        /\ DOMAIN tab_active_times' = DOMAIN tab_active_times]_vars

-----------------------------------------------------------------------------
(* SpecSearch: search mode entered, typed in, submitted and cancelled      *)
(* while tabs are listed, activated, closed and reopened and the front tab *)
(* changes.                                                                *)

SearchFirstKeys ==
    {NO_KEY, KEY_COMMA, LOWER_A, UPPER_A, KEY_SEMICOLON, KEY_QUOTE}

SearchSecondKeys ==
    {NO_KEY, KEY_COMMA, KEY_ENTER, KEY_DEL, KEY_Q, LOWER_A, UPPER_A,
     KEY_SEMICOLON}

SearchFrontTabs == {Tab("Mail", "mail.com"), Tab("Docs", "docs.com")}

NextSearch ==
    \/ \E tabs \in DispatchSnapshots : Poll(tabs)
    \/ \E answer \in SearchFrontTabs : Observe(answer)
    \/ Render(24)
    \/ \E c \in SearchFirstKeys : Key1(c, "mail.com")
    \/ \E c \in SearchSecondKeys : Key2(c)

SpecSearch == Init /\ [][NextSearch]_vars

C22_RegistryInjective ==
    \A l, k \in DOMAIN ui_letter_map :
        l # k => Identity(ui_letter_map[l]) # Identity(ui_letter_map[k])

\* Mail listed twice in window 1 and once in window 2, read after other
\* lists had left Docs in the registry: one letter for each window's Mail
C22_Witness ==
    /\ pc = "observe"
    /\ tabs_list = <<TabRec(1, "Mail", "mail.com"), TabRec(1, "Mail", "mail.com"),
                     TabRec(2, "Mail", "mail.com")>>
    /\ Cardinality(LettersOf(ui_letter_map, <<1, "Mail", "mail.com">>)) = 1
    /\ Cardinality(LettersOf(ui_letter_map, <<2, "Mail", "mail.com">>)) = 1
    /\ LettersOf(ui_letter_map, <<1, "Docs", "docs.com">>) # {}

-----------------------------------------------------------------------------
(* SpecFocus: the front tab moves between two pages, one of them under two *)
(* titles, while the clock runs, tabs are activated and closed by letter   *)
(* and the closed tab leaves the tab list.                                 *)

FocusSnapshots == {TrackerSnapshot, <<TabRec(1, "Docs", "docs.com")>>}

FocusKeys == {NO_KEY, LOWER_A, UPPER_A}

NextFocus ==
    \/ \E tabs \in FocusSnapshots : Poll(tabs)
    \/ \E answer \in FrontTabAnswers : Observe(answer)
    \/ Render(24)
    \/ \E c \in FocusKeys : Key1(c, "")
    \/ Key2(NO_KEY)
    \/ Tick

SpecFocus == Init /\ [][NextFocus]_vars

\* tab_active_times.get(url, 0), and the same of the history
AccumulatedSeconds(url) ==
    IF url \in DOMAIN tab_active_times THEN tab_active_times[url] ELSE 0
FinishedSeconds(url) ==
    IF url \in DOMAIN focus_total THEN focus_total[url] ELSE 0

(* C23 -- accumulated time: at all times the accumulated seconds of a url   *)
(* are the total length of the finished spells in which a tab of that url   *)
(* was the observed front tab (a spell runs from the answer that brought    *)
(* the tab in front to the next answer that shows another front tab); over  *)
(* any step they do not decrease and a recorded url stays recorded.         *)
C23_AccumulatedIsSumOfSpells ==
    /\ [](\A u \in TrackerUrls : AccumulatedSeconds(u) = FinishedSeconds(u))
    /\ [][\A u \in DOMAIN tab_active_times :
              /\ u \in DOMAIN tab_active_times'
              /\ tab_active_times'[u] >= tab_active_times[u]]_vars

\* mail.com has finished two spells in front and docs.com one, mail.com is
\* in front again since time 3; its tab was closed by letter and is gone
\* from the tab list
C23_Witness ==
    /\ pc = "render"
    /\ activeTab.url = "mail.com"
    /\ tabs_list = <<TabRec(1, "Docs", "docs.com")>>
    /\ closed_tabs_stack = <<"mail.com">>
    /\ AccumulatedSeconds("mail.com") = 2
    /\ AccumulatedSeconds("docs.com") = 1
    /\ tab_start_times["mail.com"] = 3

=============================================================================
